---- MODULE Spec2Model ----
(***************************************************************************)
(* Model of the connection lifecycle of system_monitor.py: the reconnect   *)
(* loop of monitor_system (the Supervisor), one connection's life inside   *)
(* the `async with` block (the Session), register_host and send_metrics.   *)
(* Time is counted in whole seconds.  The transport and the remote         *)
(* collector are the environment: every await on the websocket draws its   *)
(* outcome (a frame, a timeout, a raised exception) from a small set.      *)
(* get_client_id, which runs when the module is imported, is modelled with *)
(* the configuration and the identifier file as its environment.           *)
(***************************************************************************)
EXTENDS Integers, Sequences, FiniteSets, TLC

(***************************************************************************)
(* Bounds of the model (not program constants).                            *)
(***************************************************************************)
MaxAttempts == 6   \* connection_attempts saturates here (the backoff is 60 s from 5 on)
MaxSends == 3      \* send_count saturates here (it is only logged)
HistLen == 3       \* how many connection attempts since start are recorded
MaxRuns == 3       \* how many times the process is started (get_client_id is called)
MaxEntries == 2    \* how many keys the storage section of config.ini has at most

(***************************************************************************)
(* Program constants.                                                      *)
(***************************************************************************)
reconnect_delay == 5
metrics_interval == 10
max_backoff == 60
max_wait_time == 10
recv_timeout == 2
welcome_timeout == 1
failure_limit == 3
not_found_delay == 30
error_delay == 5

VARIABLES
  pc,                  \* where the process is: "main", then where monitor_system is suspended
  urlValid,            \* WEBSOCKET_URL is an address websockets.connect can use
  interrupted,         \* an external shutdown request has arrived
  initial_delay,       \* startup grace period chosen at line 869-874
  connection_attempts, \* monitor_system local
  current_delay,       \* backoff slept before the attempt in progress (0 = none)
  extra_sleep,         \* seconds slept in an except handler since the last attempt
  connOpen,            \* the `async with` block holds a connection
  link,                \* the transport: "none" before any connection, "up", "down"
  send_count,          \* monitor_system local (saturating at MaxSends)
  failure_count,       \* monitor_system local
  elapsed,             \* time.time() - start_time inside register_host
  regSent,             \* register_host frames written on this connection
  ackArrived,          \* a registration_confirmed frame was read by register_host
  streamed,            \* this Session reached the publish loop
  prevStreamed,        \* the Session that ended last had reached the publish loop
  pingSent,            \* a ping was written on this connection
  metricsSent,         \* a metrics_update was written on this connection
  iterLog,             \* frames written in the current publish-loop iteration
  lastPub,             \* how the transport saw the latest publish attempt
  carried,             \* the snapshot the latest publish attempt carried ("none" before any)
  unsent,              \* the snapshot of the latest publish attempt of the run was not written
  failRun,             \* failed sends of metrics_update in a row, as the transport saw them
  lastRecv,            \* outcome of register_host's latest receive ("none" before any)
  endReason,           \* why the last attempt or Session ended
  failStreak,          \* consecutive failed connection attempts (environment view)
  connHist,            \* outcome of the first HistLen connection attempts
  delayHist,           \* backoff slept before each of those attempts
  CONFIG,              \* what read_config found, as far as get_client_id looks
  client_id_file,      \* CLIENT_ID_FILE on disk: present or not, and its text
  idRead,              \* what opening and reading CLIENT_ID_FILE does now
  idWrite,             \* what opening and writing CLIENT_ID_FILE does now
  CLIENT_ID,           \* the module global assigned at line 88 (<<>> before the first import)
  uuidCount,           \* uuid.uuid4() calls so far
  idWrites,            \* completed writes of CLIENT_ID_FILE by get_client_id
  runs,                \* get_client_id calls so far
  lastPath,            \* the return statement the latest get_client_id call took
  stable,              \* nothing but get_client_id touched the storage since the first call
  firstFile,           \* CLIENT_ID_FILE as the first run found it
  persisted,           \* the first identifier CLIENT_ID_FILE ever held (<<>>: none yet)
  task,                \* which collectors this run of the collectors model applies
  failing,             \* the acquisition that raises inside collect_metrics ("none": none)
  failExc,             \* the exception it raises
  metrics,             \* keys of the dictionary collect_metrics returned
  storageSection,      \* CONFIG['storage'].items()
  hostVolumes,         \* mount points psutil.disk_usage can read on this host
  storage_devices,     \* what collect_storage_devices returned
  networkSection,      \* CONFIG['network'], when there is one
  hostInterfaces,      \* psutil.net_if_addrs() on this host
  network_interfaces,  \* what collect_network_interfaces returned
  collected            \* the collectors that have returned

idVars == <<CONFIG, client_id_file, idRead, idWrite, CLIENT_ID, uuidCount, idWrites, runs,
            lastPath, stable, firstFile, persisted>>

colVars == <<task, failing, failExc, metrics, storageSection, hostVolumes, storage_devices,
             networkSection, hostInterfaces, network_interfaces, collected>>

vars == <<pc, unsent, urlValid, interrupted, initial_delay, connection_attempts, current_delay, extra_sleep,
          connOpen, link, send_count, failure_count, elapsed, regSent,
          ackArrived, streamed, prevStreamed, pingSent, metricsSent, iterLog,
          lastPub, carried, failRun, lastRecv, endReason, failStreak, connHist, delayHist, idVars,
          colVars>>

sessionVars == <<connOpen, link, send_count, failure_count, elapsed, regSent,
                 ackArrived, streamed, pingSent, metricsSent, iterLog, lastPub, carried, failRun,
                 lastRecv>>

\* what monitor_system never assigns once it runs
fixedVars == <<urlValid, interrupted, initial_delay, idVars, colVars>>

envVars == <<fixedVars, unsent>>

supVars == <<envVars, connection_attempts, current_delay, extra_sleep>>

histVars == <<failStreak, connHist, delayHist>>

Min(a, b) == IF a < b THEN a ELSE b

(***************************************************************************)
(* Exceptions.  Subclasses(c) is the set of modelled exception classes an  *)
(* `except c` clause catches.  Every class here derives from Exception.    *)
(***************************************************************************)
ExceptionClasses ==
  {"TimeoutError", "ConnectionClosed", "InvalidStatusCode", "WebSocketException",
   "ConnectionRefusedError", "ConnectionResetError", "OSError",
   "JSONDecodeError", "AttributeError", "TypeError", "InvalidURI", "PermissionError",
   "FileNotFoundError", "AccessDenied"}

Subclasses_cancelCaught(c) ==
  CASE c = "Exception" -> ExceptionClasses \cup {"CancelledError"}
    [] c = "WebSocketException" ->
         {"WebSocketException", "ConnectionClosed", "InvalidStatusCode", "InvalidURI"}
    [] c = "ConnectionError" -> {"ConnectionRefusedError", "ConnectionResetError"}
    [] c = "OSError" ->
         {"OSError", "ConnectionRefusedError", "ConnectionResetError", "PermissionError",
          "FileNotFoundError"}
    [] OTHER -> {c}

Subclasses(c) ==
  CASE c = "Exception" -> ExceptionClasses
    [] c = "WebSocketException" ->
         {"WebSocketException", "ConnectionClosed", "InvalidStatusCode", "InvalidURI"}
    [] c = "ConnectionError" -> {"ConnectionRefusedError", "ConnectionResetError"}
    [] c = "OSError" ->
         {"OSError", "ConnectionRefusedError", "ConnectionResetError", "PermissionError",
          "FileNotFoundError"}
    [] OTHER -> {c}

\* The target of the first except clause of one try statement that catches exc.
FirstHandler(handlers, exc) ==
  LET hits == {i \in 1..Len(handlers) : exc \in Subclasses(handlers[i][1])}
  IN  IF hits = {} THEN "propagate"
      ELSE handlers[CHOOSE i \in hits : \A j \in hits : i <= j][2]

\* exc raised under the try statements of chain (innermost first): the target
\* of the innermost clause that catches it, "exited" when none does (the
\* exception leaves monitor_system).
RECURSIVE Resolve(_, _)
Resolve(chain, exc) ==
  IF chain = <<>> THEN "exited"
  ELSE LET t == FirstHandler(Head(chain), exc)
       IN  IF t = "propagate" THEN Resolve(Tail(chain), exc) ELSE t

\* The try statements of the program, as <<class, target>> clauses in order.
TryWelcome_timeoutOnly == << <<"TimeoutError", "register">> >>

TryWelcome == << <<"TimeoutError", "register">>, <<"Exception", "register">> >>

TryRecv == << <<"TimeoutError", "keep_waiting">> >>
TryRegisterHost == << <<"Exception", "return_false">> >>
TryPing == << <<"Exception", "break">> >>
TrySendMetrics == << <<"ConnectionClosed", "return_false">>,
                     <<"Exception", "return_by_class">> >>
TryLoop == << <<"ConnectionClosed", "break">>, <<"Exception", "break">> >>
TryConnection == << <<"InvalidStatusCode", "status_code">>, <<"Exception", "log">> >>
TryOuter == << <<"ConnectionClosed", "log">>, <<"ConnectionRefusedError", "log">>,
               <<"OSError", "log">>, <<"Exception", "log_sleep">> >>

\* The try statements around each await, innermost first.
ChainConnect == <<TryConnection, TryOuter>>
ChainWelcome == <<TryWelcome, TryConnection, TryOuter>>
ChainRegisterSend == <<TryRegisterHost, TryConnection, TryOuter>>
ChainRegisterRecv == <<TryRecv, TryRegisterHost, TryConnection, TryOuter>>
ChainPing == <<TryPing, TryLoop, TryConnection, TryOuter>>
ChainSendMetrics == <<TrySendMetrics, TryLoop, TryConnection, TryOuter>>

(***************************************************************************)
(* Pure parts of the program.                                              *)
(***************************************************************************)
BackoffDelay_uncapped(n) == reconnect_delay * (2 ^ (n - 1))

BackoffDelay_shifted(n) == Min(reconnect_delay * (2 ^ n), max_backoff)

\* line 884: the backoff slept when connection_attempts = n > 0
BackoffDelay(n) == Min(reconnect_delay * (2 ^ (n - 1)), max_backoff)

\* lines 795-799: json.loads and response_data.get('type') on a received frame;
\* the exception raised, or "none"
FrameKinds == {"registration_confirmed", "other_type", "no_type", "non_object", "bad_json"}

ParseError(frame) ==
  CASE frame = "bad_json" -> "JSONDecodeError"
    [] frame = "non_object" -> "AttributeError"
    [] OTHER -> "none"

IsConfirmation_loose(frame) == frame \in {"registration_confirmed", "other_type"}

\* line 799
IsConfirmation(frame) == frame = "registration_confirmed"

\* lines 850-859: what send_metrics returns when its body raised exc ("none": it did not)
SendMetricsReturn(exc) ==
  IF exc = "none" THEN TRUE
  ELSE LET t == FirstHandler(TrySendMetrics, exc)
       IN  IF t = "return_false" THEN FALSE
           ELSE ~(exc \in Subclasses("WebSocketException") \cup Subclasses("ConnectionError"))

\* what an await on the websocket can raise, given the state of the transport
SendErrors == {"ConnectionClosed", "WebSocketException", "ConnectionResetError"}

SendOutcomes(l) == IF l = "down" THEN {"ConnectionClosed"} ELSE {"none"} \cup SendErrors

LinkAfter(l, exc) == IF exc = "ConnectionClosed" THEN "down" ELSE l

ConnectOutcomes == {"ok", "ConnectionRefusedError", "TimeoutError", "OSError",
                    "InvalidStatusCode404", "InvalidStatusCode500"}

\* how a handshake can fail; an address that cannot be used fails every time
ConnectFailures(valid) == IF valid THEN ConnectOutcomes \ {"ok"} ELSE {"InvalidURI"}

\* lines 988-991: the --server argument, none given or one spliced into the URL
ServerArgs == {"none", "host:port", "not an address"}

UrlValidFor(server) == server # "not an address"

ConnectException(o) ==
  IF o \in {"InvalidStatusCode404", "InvalidStatusCode500"} THEN "InvalidStatusCode" ELSE o

\* the outcome of one publish attempt as the transport saw it
PublishOutcome(exc) ==
  IF exc = "none" THEN "sent" ELSE IF exc \in SendErrors THEN "failed" ELSE "nosend"

\* failed sends in a row after one more publish attempt
FailRunAfter(run, outcome) == IF outcome = "failed" THEN run + 1 ELSE 0

RecordAttempt(h, x) == IF Len(h) < HistLen THEN Append(h, x) ELSE h

(***************************************************************************)
(* get_client_id (lines 54-85).  The text of a file is a sequence of       *)
(* characters: WS is a whitespace character, any other number a character  *)
(* of an identifier.  An identifier is the one-character text <<n>>.       *)
(* uuid.uuid4() never returns the same value twice and never returns an    *)
(* identifier that is configured or already on disk.                       *)
(***************************************************************************)
WS == 0
OldId == 50
ConfigId == <<100>>

\* line 71 and line 85: the n-th call of uuid.uuid4() (n counted from 0)
Uuid4(n) == <<n + 1>>

\* str.strip() at line 65
RECURSIVE LStrip(_)
LStrip(s) == IF s # <<>> /\ Head(s) = WS THEN LStrip(Tail(s)) ELSE s

RECURSIVE RStrip(_)
RStrip(s) == IF s # <<>> /\ s[Len(s)] = WS THEN RStrip(SubSeq(s, 1, Len(s) - 1)) ELSE s

Strip(s) == RStrip(LStrip(s))

\* read_config (lines 38-48) and the shapes of config.ini that line 57 tells apart
ConfigStates == {"no_file", "no_system", "no_client_id", "client_id"}

HasClientId_ignored(c) == FALSE

\* line 57; a ConfigParser object is always truthy, None is not
HasClientId(c) == c # "no_file" /\ c \in {"no_client_id", "client_id"} /\ c = "client_id"

Absent == [present |-> FALSE, text |-> <<>>]

FileOf(t) == [present |-> TRUE, text |-> t]

\* the identifier file as a run can find it
FileStates == {Absent, FileOf(<<>>), FileOf(<<WS>>), FileOf(<<OldId, WS>>)}

PathExists_never(file) == FALSE

\* line 63
PathExists(file) == file.present

\* lines 64-65: open(CLIENT_ID_FILE, 'r') and f.read()
ReadOutcomes == {"read", "open_raises", "read_raises"}

ReadException(o) == IF o = "open_raises" THEN "PermissionError" ELSE "OSError"

\* lines 75-76: open(CLIENT_ID_FILE, 'w') and f.write(client_id)
WriteOutcomes == {"written", "open_raises", "write_raises"}

WriteException(o) == IF o = "open_raises" THEN "PermissionError" ELSE "OSError"

FileAfterWrite_partial(file, id, o) ==
  IF o = "open_raises" THEN file ELSE FileOf(id)

\* open(..., 'w') creates or empties the file before anything is written to it
FileAfterWrite(file, id, o) ==
  CASE o = "written" -> FileOf(id)
    [] o = "open_raises" -> file
    [] o = "write_raises" -> FileOf(<<>>)

\* the try statements of get_client_id: lines 74-80 and lines 55-85
TryWrite == << <<"Exception", "temporary">> >>
TryGetClientId == << <<"Exception", "fallback">> >>

\* lines 70-82: generate, try to save, return
GenerateAndSave(file, wr, n) ==
  LET id == Uuid4(n)
      t == IF wr = "written" THEN "saved"
           ELSE Resolve(<<TryWrite, TryGetClientId>>, WriteException(wr))
  IN  CASE t \in {"saved", "temporary"} ->
             [id |-> id, file |-> FileAfterWrite(file, id, wr), uuids |-> n + 1, path |-> t]
        [] t = "fallback" ->
             [id |-> Uuid4(n + 1), file |-> FileAfterWrite(file, id, wr), uuids |-> n + 2,
              path |-> t]
        [] OTHER ->
             [id |-> <<>>, file |-> FileAfterWrite(file, id, wr), uuids |-> n + 1,
              path |-> "raised"]

\* lines 54-85: the value returned, the file left behind, the uuid4 calls made
get_client_id(cfg, file, rd, wr, n) ==
  IF HasClientId(cfg)
  THEN [id |-> ConfigId, file |-> file, uuids |-> n, path |-> "config"]
  ELSE IF PathExists(file) /\ rd # "read"
  THEN LET t == Resolve(<<TryGetClientId>>, ReadException(rd))
       IN  IF t = "fallback"
           THEN [id |-> Uuid4(n), file |-> file, uuids |-> n + 1, path |-> t]
           ELSE [id |-> <<>>, file |-> file, uuids |-> n, path |-> "raised"]
  ELSE IF PathExists(file) /\ Strip(file.text) # <<>>
  THEN [id |-> Strip(file.text), file |-> file, uuids |-> n, path |-> "file"]
  ELSE GenerateAndSave(file, wr, n)

\* the identifier the file holds for a later run, <<>> when it holds none
PersistedId(file) == IF file.present THEN Strip(file.text) ELSE <<>>

(***************************************************************************)
(* collect_metrics (lines 616-740).  The acquisitions are the psutil calls *)
(* in the order the function makes them, on a host with the partitions     *)
(* and interfaces below; the result is the set of keys of the dictionary   *)
(* returned.  Every exception class drawn derives from Exception.          *)
(***************************************************************************)
Partitions == <<"/", "/data">>
IoInterfaces == <<"lo", "eth0">>

AcqOrder ==
  <<"cpu_percent", "virtual_memory", "swap_memory", "boot_time", "pids", "getloadavg",
    "disk_partitions", "disk_usage:/", "disk_usage:/data", "net_io_counters">>

Acquisitions == {AcqOrder[i] : i \in 1..Len(AcqOrder)}

MetricErrors == {"PermissionError", "FileNotFoundError", "OSError", "AccessDenied"}

\* lines 581 and 721: startswith('lo') or startswith('veth')
IsLoopback(name) == name \in {"lo", "veth0"}

\* the keys each acquisition contributes to the dictionary
MetricsOf(a) ==
  CASE a = "cpu_percent" -> {"cpu_usage"}
    [] a = "virtual_memory" -> {"memory_used", "memory_percent"}
    [] a = "swap_memory" -> {"swap_used", "swap_percent"}
    [] a = "boot_time" -> {"boot_time"}
    [] a = "pids" -> {"process_count"}
    [] a = "getloadavg" -> {"load_avg_1min", "load_avg_5min", "load_avg_15min"}
    [] a = "disk_usage:/" -> {"disk_used_/", "disk_percent_/"}
    [] a = "disk_usage:/data" -> {"disk_used_/data", "disk_percent_/data"}
    [] a = "net_io_counters" -> {"net_bytes_sent_eth0", "net_bytes_recv_eth0"}
    [] OTHER -> {}

AllMetrics == UNION {MetricsOf(a) : a \in Acquisitions}

\* the try statements of collect_metrics: lines 693-711 and lines 618-740
TryDiskUsage == << <<"PermissionError", "continue">>, <<"FileNotFoundError", "continue">> >>
TryCollectMetrics == << <<"Exception", "return_empty">> >>

\* the try statements around one acquisition, innermost first
ChainOf(a) ==
  IF a \in {"disk_usage:/", "disk_usage:/data"}
  THEN <<TryDiskUsage, TryCollectMetrics>>
  ELSE <<TryCollectMetrics>>

\* lines 618-740 from the i-th acquisition on, with acc collected so far
RECURSIVE Acquire(_, _, _, _)
Acquire(i, acc, bad, exc) ==
  IF i > Len(AcqOrder) THEN acc
  ELSE IF AcqOrder[i] = bad
  THEN IF Resolve(ChainOf(bad), exc) = "continue"
       THEN Acquire(i + 1, acc, bad, exc)
       ELSE {}
  ELSE Acquire(i + 1, acc \cup MetricsOf(AcqOrder[i]), bad, exc)

collect_metrics(bad, exc) == Acquire(1, {}, bad, exc)

(***************************************************************************)
(* collect_storage_devices with a storage section (lines 273-303) and      *)
(* collect_network_interfaces (lines 513-614).  A configuration value is   *)
(* the sequence of its fields between '|' characters.  Of an entry of the  *)
(* result only name and device_type are kept; of an interface, its name.   *)
(***************************************************************************)
StorageKeys == {"device_1", "device_2", "label"}
StorageValues == {<<"/data", "hdd">>, <<"/backup", "usb">>, <<"/backup">>}
HostMounts == {"/", "/data", "/backup"}

\* line 279
IsDeviceKey(key) == key \in {"device_1", "device_2"}

SeqsUpTo(S, n) == UNION {[1..k -> S] : k \in 0..n}

\* a section of config.ini has each key once
StorageSections ==
  {s \in SeqsUpTo([key : StorageKeys, value : StorageValues], MaxEntries) :
     \A i, j \in 1..Len(s) : s[i].key = s[j].key => i = j}

\* line 281: the unpacking of value.split('|') raises unless there are two fields
WellFormed(value) == Len(value) = 2

\* lines 277-285
ConfigDevices(items) ==
  SelectSeq(items, LAMBDA e : IsDeviceKey(e.key) /\ WellFormed(e.value))

RECURSIVE ConfiguredStorage(_, _)
\* lines 287-303: one entry per configured mount point that disk_usage can read
ConfiguredStorage(devices, volumes) ==
  IF devices = <<>> THEN <<>>
  ELSE LET e == Head(devices)
           rest == ConfiguredStorage(Tail(devices), volumes)
       IN  IF e.value[1] \in volumes
           THEN <<[name |-> e.value[1], device_type |-> e.value[Len(e.value)]]>> \o rest
           ELSE rest

collect_storage_devices(items, volumes) == ConfiguredStorage(ConfigDevices(items), volumes)

IfOrder == <<"lo", "eth0", "veth0">>
IfNames == {IfOrder[i] : i \in 1..Len(IfOrder)}
IfStates == {"absent", "no_ip", "ipv4"}

NoSection == [present |-> FALSE, items |-> <<>>]

Section(items) == [present |-> TRUE, items |-> items]

NetworkSections ==
  {NoSection, Section(<<>>),
   Section(<<[key |-> "interface_1", value |-> "eth0"]>>),
   Section(<<[key |-> "interface_1", value |-> "lo"]>>),
   Section(<<[key |-> "name", value |-> "eth0"]>>)}

\* line 524
IsInterfaceKey(key) == key = "interface_1"

HasNetworkSection_any(section) == TRUE

\* line 519
HasNetworkSection(section) == section.present

\* lines 522-561: configured interfaces found on the host, with or without an address
ConfiguredNetwork(items, host) ==
  LET named == SelectSeq(items, LAMBDA e : IsInterfaceKey(e.key))
      found == SelectSeq(named, LAMBDA e : host[e.value] # "absent")
  IN  [i \in 1..Len(found) |-> found[i].value]

\* lines 563-610: interfaces that are not loopback and have an IPv4 address
AutoNetwork(host) ==
  SelectSeq(IfOrder, LAMBDA n : host[n] = "ipv4" /\ ~IsLoopback(n))

collect_network_interfaces(section, host) ==
  IF HasNetworkSection(section)
  THEN ConfiguredNetwork(section.items, host)
  ELSE AutoNetwork(host)

CollectorsIdle ==
  /\ task = "none"
  /\ failing = "none"
  /\ failExc = "none"
  /\ metrics = {}
  /\ storageSection = <<>>
  /\ hostVolumes = {}
  /\ storage_devices = <<>>
  /\ networkSection = NoSection
  /\ hostInterfaces = [n \in IfNames |-> "absent"]
  /\ network_interfaces = <<>>
  /\ collected = {}

(***************************************************************************)
(* Initial state: the module is imported, __main__ is about to run.        *)
(* The import found no config.ini and no identifier file and saved the     *)
(* identifier it generated.                                                *)
(***************************************************************************)
IdentityResolved ==
  /\ CONFIG = "no_file"
  /\ idRead = "read"
  /\ idWrite = "written"
  /\ CLIENT_ID = Uuid4(0)
  /\ client_id_file = FileOf(Uuid4(0))
  /\ uuidCount = 1
  /\ idWrites = 1
  /\ runs = 1
  /\ lastPath = "saved"
  /\ stable = TRUE
  /\ firstFile = Absent
  /\ persisted = Uuid4(0)

MonitorIdle ==
  /\ urlValid = TRUE
  /\ interrupted = FALSE
  /\ initial_delay \in {1, 5}
  /\ connection_attempts = 0
  /\ current_delay = 0
  /\ extra_sleep = 0
  /\ connOpen = FALSE
  /\ link = "none"
  /\ send_count = 0
  /\ failure_count = 0
  /\ elapsed = 0
  /\ regSent = 0
  /\ ackArrived = FALSE
  /\ streamed = FALSE
  /\ prevStreamed = FALSE
  /\ pingSent = FALSE
  /\ metricsSent = FALSE
  /\ iterLog = <<>>
  /\ lastPub = "none"
  /\ carried = "none"
  /\ unsent = FALSE
  /\ failRun = 0
  /\ lastRecv = "none"
  /\ endReason = "none"
  /\ failStreak = 0
  /\ connHist = <<>>
  /\ delayHist = <<>>

Init ==
  /\ pc = "main"
  /\ IdentityResolved
  /\ MonitorIdle
  /\ CollectorsIdle

(***************************************************************************)
(* Where control goes from the handlers of monitor_system.                 *)
(***************************************************************************)
HandlerPc_reraises(t, status404) ==
  CASE t = "status_code" -> IF status404 THEN "not_found_sleep" ELSE "loop_top"
    [] t = "exited" -> "exited"
    [] t = "log" -> "exited"
    [] OTHER -> "loop_top"

\* lines 924, 939, 948, 951, 953-971: the position reached from target t
HandlerPc(t, status404) ==
  CASE t = "status_code" -> IF status404 THEN "not_found_sleep" ELSE "loop_top"
    [] t = "exited" -> "exited"
    [] OTHER -> "loop_top"

\* line 971
HandlerSleep(t) == IF t = "log_sleep" THEN error_delay ELSE 0

AfterRegistration_ignored(registered) == "ping"

AfterRegistration_returns(registered) == IF registered THEN "ping" ELSE "return"

\* lines 906-909: what monitor_system does with register_host's result
AfterRegistration(registered) == IF registered THEN "ping" ELSE "continue"

AttemptsAfterConnect_kept(n) == n

\* line 895: connection_attempts once the handshake has succeeded
AttemptsAfterConnect(n) == 0

AfterPing_ignored(ok) == "metrics"

\* lines 916-924: after the ping, on to send_metrics or out of the publish loop
AfterPing(ok) == IF ok THEN "metrics" ELSE "break"

\* line 918: the fields of ping_message
PingFields == {"type", "timestamp"}

Carried_retry(failedBefore) == IF failedBefore THEN "old" ELSE "fresh"

\* lines 822, 838-847: the message is built from the snapshot collected in this
\* call, whether or not an earlier snapshot failed to go out
Carried(failedBefore) == "fresh"

AfterAsyncWith_leaks(open) == open

\* line 893: leaving the `async with` block closes the connection
AfterAsyncWith(open) == FALSE

\* lines 932-933, 940-942: the new failure_count
NextFailureCount(sent, count) == IF sent THEN 0 ELSE count + 1

PublishBreaks_early(sent, count) == ~sent /\ count + 1 >= failure_limit - 1

\* lines 937-939
PublishBreaks(sent, count) == ~sent /\ NextFailureCount(sent, count) >= failure_limit

\* Leaving the `async with` block: the connection is closed, control goes on
\* from target t.
SessionEnd(reason, t) ==
  /\ pc' = HandlerPc(t, FALSE)
  /\ extra_sleep' = HandlerSleep(t)
  /\ connOpen' = AfterAsyncWith(connOpen)
  /\ endReason' = reason
  /\ prevStreamed' = streamed

\* The locals and the record of the Session that ended are dropped when the
\* loop starts over.
SessionForgotten ==
  /\ send_count' = 0
  /\ failure_count' = 0
  /\ elapsed' = 0
  /\ regSent' = 0
  /\ ackArrived' = FALSE
  /\ streamed' = FALSE
  /\ pingSent' = FALSE
  /\ metricsSent' = FALSE
  /\ iterLog' = <<>>
  /\ lastPub' = "none"
  /\ carried' = "none"
  /\ failRun' = 0
  /\ lastRecv' = "none"

(***************************************************************************)
(* The Supervisor: lines 861-889 and 953-971.                              *)
(***************************************************************************)
\* lines 974-1007: parse the arguments, build WEBSOCKET_URL, enter monitor_system
Main ==
  /\ pc = "main"
  /\ \E server \in ServerArgs : urlValid' = UrlValidFor(server)
  /\ pc' = "startup"
  /\ UNCHANGED <<interrupted, initial_delay, idVars, colVars, unsent, connection_attempts, current_delay,
                 extra_sleep, sessionVars, histVars, prevStreamed, endReason>>

\* line 877
StartupSleep ==
  /\ pc = "startup"
  /\ pc' = "loop_top"
  /\ UNCHANGED <<supVars, sessionVars, histVars, prevStreamed, endReason>>

\* lines 879-889 when no backoff applies, lines 882-885 when one does
LoopTop ==
  /\ pc = "loop_top"
  /\ IF connection_attempts > 0
       THEN /\ current_delay' = BackoffDelay(connection_attempts)
            /\ pc' = "backoff"
            /\ UNCHANGED connection_attempts
       ELSE /\ current_delay' = 0
            /\ connection_attempts' = Min(connection_attempts + 1, MaxAttempts)
            /\ pc' = "connecting"
  /\ SessionForgotten
  /\ UNCHANGED <<envVars, extra_sleep, connOpen, link, histVars, prevStreamed,
                 endReason>>

\* lines 886-889
BackoffSleep ==
  /\ pc = "backoff"
  /\ connection_attempts' = Min(connection_attempts + 1, MaxAttempts)
  /\ pc' = "connecting"
  /\ UNCHANGED <<envVars, current_delay, extra_sleep, sessionVars, histVars,
                 prevStreamed, endReason>>

\* lines 893-895: the handshake succeeds
ConnectOk ==
  /\ pc = "connecting"
  /\ urlValid
  /\ connOpen' = TRUE
  /\ link' = "up"
  /\ connection_attempts' = AttemptsAfterConnect(connection_attempts)
  /\ pc' = "welcome"
  /\ extra_sleep' = 0
  /\ current_delay' = 0
  /\ endReason' = "none"
  /\ prevStreamed' = FALSE
  /\ failStreak' = 0
  /\ connHist' = RecordAttempt(connHist, "ok")
  /\ delayHist' = RecordAttempt(delayHist, current_delay)
  /\ UNCHANGED <<envVars, send_count, failure_count, elapsed, regSent,
                 ackArrived, streamed, pingSent, metricsSent, iterLog, lastPub, carried, failRun,
                 lastRecv>>

\* lines 893, 953-959: the handshake raises
ConnectFail ==
  /\ pc = "connecting"
  /\ \E o \in ConnectFailures(urlValid) :
       LET t == Resolve(ChainConnect, ConnectException(o))
       IN  /\ pc' = HandlerPc(t, o = "InvalidStatusCode404")
           /\ extra_sleep' = HandlerSleep(t)
           /\ connHist' = RecordAttempt(connHist, "failed")
  /\ delayHist' = RecordAttempt(delayHist, current_delay)
  /\ failStreak' = Min(failStreak + 1, MaxAttempts - 1)
  /\ endReason' = "connect_failed"
  /\ prevStreamed' = FALSE
  /\ UNCHANGED <<envVars, connection_attempts, current_delay, sessionVars>>

\* lines 956-957
NotFoundSleep ==
  /\ pc = "not_found_sleep"
  /\ extra_sleep' = not_found_delay
  /\ pc' = "loop_top"
  /\ UNCHANGED <<envVars, connection_attempts, current_delay, sessionVars,
                 histVars, prevStreamed, endReason>>

(***************************************************************************)
(* The Session: lines 893-951, register_host and send_metrics.             *)
(***************************************************************************)
FrameDelays == 0..(recv_timeout - 1)   \* a frame arrives before the receive times out

\* lines 897-903: the greeting wait; whatever happens, control reaches line 906
Welcome ==
  /\ pc = "welcome"
  /\ \E o \in FrameKinds \cup {"TimeoutError", "ConnectionClosed"} :
       LET exc == IF o \in FrameKinds
                    THEN (IF o = "bad_json" THEN "JSONDecodeError" ELSE "none")
                    ELSE o
           t == IF exc = "none" THEN "register" ELSE Resolve(ChainWelcome, exc)
       IN  /\ link' = LinkAfter(link, exc)
           /\ IF t = "register"
                THEN /\ pc' = "register"
                     /\ UNCHANGED <<extra_sleep, connOpen, endReason, prevStreamed>>
                ELSE /\ pc' = HandlerPc(t, FALSE)
                     /\ extra_sleep' = HandlerSleep(t)
                     /\ connOpen' = AfterAsyncWith(connOpen)
                     /\ endReason' = "welcome_failed"
                     /\ prevStreamed' = streamed
  /\ UNCHANGED <<envVars, connection_attempts, current_delay, send_count,
                 failure_count, elapsed, regSent, ackArrived, streamed, pingSent,
                 metricsSent, iterLog, lastPub, carried, failRun, lastRecv, histVars>>

\* register_host returned `registered` (lines 906-913)
RegistrationReturns(registered) ==
  IF AfterRegistration(registered) = "ping"
    THEN /\ pc' = "ping"
         /\ streamed' = TRUE
         /\ send_count' = 0
         /\ failure_count' = 0
         /\ UNCHANGED <<extra_sleep, connOpen, endReason, prevStreamed>>
    ELSE /\ pc' = IF AfterRegistration(registered) = "continue"
                    THEN "loop_top" ELSE "exited"
         /\ extra_sleep' = 0
         /\ connOpen' = AfterAsyncWith(connOpen)
         /\ endReason' = "registration_failed"
         /\ prevStreamed' = streamed
         /\ UNCHANGED <<streamed, send_count, failure_count>>

\* an exception left register_host (its handler at 808 did not catch it)
RegistrationRaises(t) ==
  /\ pc' = HandlerPc(t, FALSE)
  /\ extra_sleep' = HandlerSleep(t)
  /\ connOpen' = AfterAsyncWith(connOpen)
  /\ endReason' = "registration_raised"
  /\ prevStreamed' = streamed
  /\ UNCHANGED <<streamed, send_count, failure_count>>

\* lines 744-790: build the registration message and send it
RegisterSend ==
  /\ pc = "register"
  /\ \E exc \in SendOutcomes(link) :
       /\ link' = LinkAfter(link, exc)
       /\ IF exc = "none"
            THEN /\ regSent' = regSent + 1
                 /\ elapsed' = 0
                 /\ pc' = "reg_wait"
                 /\ UNCHANGED <<extra_sleep, connOpen, endReason, prevStreamed,
                                streamed, send_count, failure_count>>
            ELSE /\ UNCHANGED <<regSent, elapsed>>
                 /\ LET t == Resolve(ChainRegisterSend, exc)
                    IN  IF t = "return_false"
                          THEN RegistrationReturns(FALSE)
                          ELSE RegistrationRaises(t)
  /\ UNCHANGED <<envVars, connection_attempts, current_delay, ackArrived,
                 pingSent, metricsSent, iterLog, lastPub, carried, failRun, lastRecv, histVars>>

WaitTarget_resend(t) == IF t = "keep_waiting" THEN "register" ELSE "reg_wait"

\* lines 792-803: where the wait loop goes on after a receive that neither
\* confirmed nor failed (t = "keep_waiting": it timed out): to the next receive
WaitTarget(t) == "reg_wait"

\* lines 792-803: one pass of the wait loop, the 2 s receive and its handling
RegisterRecv ==
  /\ pc = "reg_wait"
  /\ elapsed < max_wait_time
  /\ \E o \in FrameKinds \cup {"TimeoutError", "ConnectionClosed"} :
     \E d \in FrameDelays :
       LET isFrame == o \in FrameKinds
           exc == IF isFrame THEN ParseError(o) ELSE o
           t == IF exc = "none" THEN "none" ELSE Resolve(ChainRegisterRecv, exc)
           confirmed == exc = "none" /\ IsConfirmation(o)
       IN  /\ (link = "down") => (o = "ConnectionClosed")
           /\ (o = "TimeoutError") => (d = 0)
           /\ elapsed' = elapsed + (IF o = "TimeoutError" THEN recv_timeout ELSE d)
           /\ link' = LinkAfter(link, exc)
           /\ lastRecv' = o
           /\ ackArrived' = (ackArrived \/ (isFrame /\ o = "registration_confirmed"))
           /\ IF confirmed THEN RegistrationReturns(TRUE)
              ELSE IF t \in {"none", "keep_waiting"}
                THEN /\ pc' = WaitTarget(t)
                     /\ UNCHANGED <<extra_sleep, connOpen, endReason, prevStreamed,
                                    streamed, send_count, failure_count>>
              ELSE IF t = "return_false" THEN RegistrationReturns(FALSE)
              ELSE RegistrationRaises(t)
  /\ UNCHANGED <<envVars, connection_attempts, current_delay, regSent,
                 pingSent, metricsSent, iterLog, lastPub, carried, failRun, histVars>>

\* lines 792, 805-806: the wait loop ends without a confirmation
RegisterTimeout ==
  /\ pc = "reg_wait"
  /\ elapsed >= max_wait_time
  /\ RegistrationReturns(FALSE)
  /\ UNCHANGED <<envVars, connection_attempts, current_delay, link, elapsed, regSent,
                 ackArrived, pingSent, metricsSent, iterLog, lastPub, carried, failRun, lastRecv,
                 histVars>>

\* lines 914-924: the ping that opens each pass of the publish loop
Ping ==
  /\ pc = "ping"
  /\ \E exc \in SendOutcomes(link) :
       /\ link' = LinkAfter(link, exc)
       /\ pingSent' = (pingSent \/ exc = "none")
       /\ iterLog' = IF exc = "none" THEN <<"ping">> ELSE <<>>
       /\ IF AfterPing(exc = "none") = "metrics"
            THEN /\ pc' = "metrics"
                 /\ UNCHANGED <<extra_sleep, connOpen, endReason, prevStreamed>>
            ELSE SessionEnd("ping_failed", Resolve(ChainPing, exc))
  /\ UNCHANGED <<envVars, connection_attempts, current_delay, send_count,
                 failure_count, elapsed, regSent, ackArrived, streamed, metricsSent,
                 lastPub, carried, failRun, lastRecv, histVars>>

\* lines 926-942 with send_metrics (812-859): one publish attempt and the
\* failure accounting that follows it
Publish ==
  /\ pc = "metrics"
  /\ send_count' = Min(send_count + 1, MaxSends)
  /\ \E exc \in SendOutcomes(link) \cup {"TypeError"} :
       LET t == Resolve(ChainSendMetrics, exc)
           returned == exc = "none" \/ t \in {"return_false", "return_by_class"}
           sent == SendMetricsReturn(exc)
       IN  /\ link' = LinkAfter(link, exc)
           /\ metricsSent' = (metricsSent \/ exc = "none")
           /\ iterLog' = IF exc = "none" THEN Append(iterLog, "metrics_update") ELSE iterLog
           /\ lastPub' = PublishOutcome(exc)
           /\ carried' = Carried(unsent)
           /\ unsent' = (exc # "none")
           /\ failRun' = FailRunAfter(failRun, PublishOutcome(exc))
           /\ IF ~returned
                THEN /\ SessionEnd("loop_raised", t)
                     /\ UNCHANGED failure_count
                ELSE /\ failure_count' = NextFailureCount(sent, failure_count)
                     /\ IF PublishBreaks(sent, failure_count)
                          THEN SessionEnd("publish_failures", "break")
                          ELSE /\ pc' = "interval_sleep"
                               /\ UNCHANGED <<extra_sleep, connOpen, endReason,
                                              prevStreamed>>
  /\ UNCHANGED <<fixedVars, connection_attempts, current_delay, elapsed, regSent,
                 ackArrived, streamed, pingSent, lastRecv, histVars>>

\* line 945
IntervalSleep ==
  /\ pc = "interval_sleep"
  /\ pc' = "ping"
  /\ UNCHANGED <<supVars, sessionVars, histVars, prevStreamed, endReason>>

Next ==
  \/ Main
  \/ StartupSleep
  \/ LoopTop
  \/ BackoffSleep
  \/ ConnectOk
  \/ ConnectFail
  \/ NotFoundSleep
  \/ Welcome
  \/ RegisterSend
  \/ RegisterRecv
  \/ RegisterTimeout
  \/ Ping
  \/ Publish
  \/ IntervalSleep

Spec == Init /\ [][Next]_vars

(***************************************************************************)
(* External shutdown.  asyncio.run turns the interrupt into a              *)
(* CancelledError raised at the await where monitor_system is suspended;   *)
(* CancelledError derives from BaseException, not from Exception.  What    *)
(* leaves monitor_system reaches the handler at lines 1008-1010.           *)
(***************************************************************************)
SuspensionPcs ==
  {"startup", "backoff", "connecting", "not_found_sleep", "welcome", "register",
   "reg_wait", "ping", "metrics", "interval_sleep"}

\* the try statements around the await at position p, innermost first
ChainAt(p) ==
  CASE p = "startup" -> <<>>
    [] p \in {"backoff", "not_found_sleep"} -> <<TryOuter>>
    [] p = "connecting" -> ChainConnect
    [] p = "welcome" -> ChainWelcome
    [] p = "register" -> ChainRegisterSend
    [] p = "reg_wait" -> ChainRegisterRecv
    [] p = "ping" -> ChainPing
    [] p = "metrics" -> ChainSendMetrics
    [] p = "interval_sleep" -> <<TryLoop, TryConnection, TryOuter>>

\* where control goes when the handler with target t has caught the
\* cancellation at position p ("exited": nothing in monitor_system caught it)
CancelPc(p, t) ==
  CASE t = "exited" -> "stopped"
    [] t = "register" -> "register"
    [] t = "keep_waiting" -> p
    [] t = "return_by_class" -> "interval_sleep"
    [] OTHER -> "loop_top"

Interrupt ==
  /\ pc \in SuspensionPcs
  /\ ~interrupted
  /\ interrupted' = TRUE
  /\ LET t == Resolve(ChainAt(pc), "CancelledError")
     IN  /\ pc' = CancelPc(pc, t)
         /\ connOpen' = IF CancelPc(pc, t) \in {"stopped", "loop_top"} THEN FALSE ELSE connOpen
  /\ UNCHANGED <<urlValid, initial_delay, idVars, colVars, unsent, connection_attempts,
                 current_delay, extra_sleep, link, send_count, failure_count, elapsed, regSent, ackArrived, streamed,
                 pingSent, metricsSent, iterLog, lastPub, carried, failRun, lastRecv, histVars,
                 prevStreamed, endReason>>

ShutdownNext == Next \/ Interrupt

ShutdownSpec == Init /\ [][ShutdownNext]_vars

(***************************************************************************)
(* Identity across runs of the process.  Each run imports the module       *)
(* (line 88), runs __main__ and the startup sleep; between two runs the    *)
(* permissions of the identifier file can change and its text can be       *)
(* blanked.                                                                *)
(***************************************************************************)
monitorVars == <<urlValid, interrupted, initial_delay, unsent, connection_attempts, current_delay,
                 extra_sleep, sessionVars, histVars, prevStreamed, endReason>>

\* line 88
Import ==
  /\ pc = "import"
  /\ LET r == get_client_id(CONFIG, client_id_file, idRead, idWrite, uuidCount)
     IN  /\ CLIENT_ID' = r.id
         /\ client_id_file' = r.file
         /\ uuidCount' = r.uuids
         /\ lastPath' = r.path
         /\ idWrites' = IF r.path = "saved" THEN idWrites + 1 ELSE idWrites
         /\ pc' = IF r.path = "raised" THEN "crashed" ELSE "main"
         /\ persisted' = IF persisted = <<>> THEN PersistedId(r.file) ELSE persisted
  /\ runs' = runs + 1
  /\ UNCHANGED <<CONFIG, idRead, idWrite, stable, firstFile, monitorVars, colVars>>

\* what can have happened to the file between two runs
FilesLater(file) == IF file.present THEN {file, FileOf(<<WS>>)} ELSE {file}

\* the process is stopped and started again
Restart ==
  /\ pc \in {"main", "startup", "loop_top"}
  /\ runs < MaxRuns
  /\ pc' = "import"
  /\ urlValid' = TRUE
  /\ \E rd \in ReadOutcomes, wr \in WriteOutcomes, f \in FilesLater(client_id_file) :
       /\ idRead' = rd
       /\ idWrite' = wr
       /\ client_id_file' = f
       /\ stable' = (stable /\ rd = idRead /\ wr = idWrite /\ f = client_id_file)
  /\ UNCHANGED <<CONFIG, CLIENT_ID, uuidCount, idWrites, runs, lastPath, firstFile,
                 persisted, colVars, unsent, interrupted,
                 initial_delay, connection_attempts, current_delay, extra_sleep,
                 sessionVars, histVars, prevStreamed, endReason>>

IdInit ==
  /\ pc = "import"
  /\ CONFIG \in ConfigStates
  /\ client_id_file \in FileStates
  /\ idRead \in ReadOutcomes
  /\ idWrite \in WriteOutcomes
  /\ CLIENT_ID = <<>>
  /\ uuidCount = 0
  /\ idWrites = 0
  /\ runs = 0
  /\ lastPath = "none"
  /\ stable = TRUE
  /\ firstFile = client_id_file
  /\ persisted = PersistedId(client_id_file)
  /\ MonitorIdle
  /\ CollectorsIdle

IdNext ==
  \/ Import
  \/ Main
  \/ StartupSleep
  \/ Restart

IdSpec == IdInit /\ [][IdNext]_vars

(***************************************************************************)
(* The collectors applied to drawn inputs: collect_metrics as send_metrics *)
(* calls it (line 822), or collect_storage_devices and then                *)
(* collect_network_interfaces as register_host calls them (lines 757-760). *)
(***************************************************************************)
CollectInit ==
  /\ pc = "main"
  /\ IdentityResolved
  /\ MonitorIdle
  /\ metrics = {}
  /\ storage_devices = <<>>
  /\ network_interfaces = <<>>
  /\ collected = {}
  /\ \/ /\ task = "metrics"
        /\ failing \in Acquisitions \cup {"none"}
        /\ failExc \in IF failing = "none" THEN {"none"} ELSE MetricErrors
        /\ storageSection = <<>>
        /\ hostVolumes = {}
        /\ networkSection = NoSection
        /\ hostInterfaces = [n \in IfNames |-> "absent"]
     \/ /\ task = "info"
        /\ failing = "none"
        /\ failExc = "none"
        /\ storageSection \in StorageSections
        /\ hostVolumes \in SUBSET HostMounts
        /\ networkSection \in NetworkSections
        /\ hostInterfaces \in [IfNames -> IfStates]

notCollected == <<task, failing, failExc, storageSection, hostVolumes, networkSection,
                  hostInterfaces>>

CollectMetrics ==
  /\ task = "metrics"
  /\ "metrics" \notin collected
  /\ metrics' = collect_metrics(failing, failExc)
  /\ collected' = collected \cup {"metrics"}
  /\ UNCHANGED <<pc, monitorVars, idVars, notCollected, storage_devices, network_interfaces>>

CollectStorage ==
  /\ task = "info"
  /\ "storage" \notin collected
  /\ storage_devices' = collect_storage_devices(storageSection, hostVolumes)
  /\ collected' = collected \cup {"storage"}
  /\ UNCHANGED <<pc, monitorVars, idVars, notCollected, metrics, network_interfaces>>

CollectNetwork ==
  /\ task = "info"
  /\ "storage" \in collected
  /\ "network" \notin collected
  /\ network_interfaces' = collect_network_interfaces(networkSection, hostInterfaces)
  /\ collected' = collected \cup {"network"}
  /\ UNCHANGED <<pc, monitorVars, idVars, notCollected, metrics, storage_devices>>

CollectNext ==
  \/ CollectMetrics
  \/ CollectStorage
  \/ CollectNetwork

CollectSpec == CollectInit /\ [][CollectNext]_vars

\* Every await of the program returns or raises: sleeps end, the handshake and
\* the receives are bounded by their timeouts, a send on a dead transport raises.
\* Time passes: within any finite time only finitely many frames arrive.
TimePasses == RegisterRecv /\ elapsed' > elapsed

FairSpec == Spec /\ WF_vars(Next) /\ WF_vars(TimePasses)

TypeOK ==
  /\ pc \in {"main", "startup", "loop_top", "backoff", "connecting", "not_found_sleep",
             "welcome", "register", "reg_wait", "ping", "metrics", "interval_sleep",
             "exited", "stopped"}
  /\ connection_attempts \in 0..MaxAttempts
  /\ current_delay \in 0..max_backoff
  /\ failure_count \in 0..failure_limit
  /\ send_count \in 0..MaxSends
  /\ elapsed \in 0..(max_wait_time + recv_timeout)
  /\ link \in {"none", "up", "down"}

StreamingPcs == {"ping", "metrics", "interval_sleep"}

(***************************************************************************)
(* C1.  Within one Session no metrics_update is sent unless a              *)
(* registration_confirmed frame was received on that connection after the  *)
(* Session's register_host was sent.                                       *)
(***************************************************************************)
C1_NoMetricsBeforeAck ==
  (metricsSent \/ (pc = "interval_sleep" /\ iterLog # <<>>)) => (ackArrived /\ regSent >= 1)

C1_Witness == metricsSent /\ ackArrived /\ regSent = 1 /\ pc = "interval_sleep"

(***************************************************************************)
(* C2.  A Session ends for publish failures after exactly 3 consecutive    *)
(* failed metrics_update sends; fewer than 3 leave it in the loop; a       *)
(* successful publish sets failure_count to 0.                             *)
(***************************************************************************)
C2_ThreeConsecutiveFailures ==
  /\ (pc = "loop_top" /\ endReason = "publish_failures") => failRun = 3
  /\ (pc = "interval_sleep") => failRun < 3
  /\ (pc = "interval_sleep" /\ lastPub = "sent") => failure_count = 0
  /\ (pc = "loop_top" /\ streamed /\ failRun < 3) => endReason # "publish_failures"

C2_Witness ==
  /\ pc = "loop_top" /\ endReason = "publish_failures"
  /\ failRun = 3 /\ metricsSent /\ lastPub = "failed"

C4_ResetOnStreaming ==
  /\ (pc \in StreamingPcs) => connection_attempts = 0
  /\ prevStreamed => pc \in {"loop_top", "connecting"}
  /\ (pc = "connecting" /\ prevStreamed) => (current_delay = 0 /\ connection_attempts = 1)

C4_Witness == pc = "connecting" /\ prevStreamed /\ Len(connHist) >= 2 /\ connHist[1] = "failed"

(***************************************************************************)
(* C5.  Scenario: the first two connection attempts fail and the third     *)
(* succeeds.  The backoff delays before attempts 1, 2, 3 are 0, 5 and 10   *)
(* seconds, and a publish cycle of a Session holds one ping followed by at *)
(* most one metrics_update, exactly one when the publish succeeded.        *)
(***************************************************************************)
ScenarioPrefix ==
  /\ Len(connHist) >= 3
  /\ connHist[1] = "failed" /\ connHist[2] = "failed" /\ connHist[3] = "ok"

C6_LeavesWaitFailed ==
  (pc = "reg_wait" /\ pc' # "reg_wait" /\ ~ackArrived') =>
     /\ pc' = "loop_top"
     /\ ~connOpen'
     /\ endReason' = "registration_failed"
     /\ ~streamed' /\ ~pingSent' /\ ~metricsSent'

C6_NoAckNoStreaming ==
  /\ [][C6_LeavesWaitFailed]_vars
  /\ [](pc \in StreamingPcs => ackArrived)
  /\ []((pc = "loop_top" /\ endReason = "registration_failed") =>
          (~connOpen /\ ~streamed /\ ~pingSent /\ ~metricsSent))

C6_Witness ==
  /\ pc = "loop_top" /\ endReason = "registration_failed"
  /\ regSent = 1 /\ elapsed >= max_wait_time /\ lastRecv = "TimeoutError"

(***************************************************************************)
(* C7.  The registration wait lasts at most 10 seconds from the moment     *)
(* register_host was sent.                                                 *)
(***************************************************************************)
C7_Original == elapsed <= 10

(***************************************************************************)
(* C8.  During the registration wait a frame that is not a                 *)
(* registration_confirmed never ends the wait with failure: registration   *)
(* fails after a received frame only once the overall timeout has elapsed. *)
(***************************************************************************)
C8_Original ==
  (pc = "loop_top" /\ endReason = "registration_failed" /\ lastRecv \in FrameKinds)
     => elapsed >= 10

(***************************************************************************)
(* C9.  After every Session termination and every failed connection        *)
(* attempt a new connection attempt is eventually made, and no suspension  *)
(* point holds the program forever.                                        *)
(***************************************************************************)
C9_NeverGivesUp ==
  /\ (endReason # "none" /\ ~connOpen /\ pc # "connecting") ~> (pc = "connecting")
  /\ \A p \in SuspensionPcs : (pc = p) ~> (pc # p)

C9_Witness == pc = "connecting" /\ endReason = "ping_failed" /\ prevStreamed

(***************************************************************************)
(* C10.  No transport or protocol error makes monitor_system exit: a       *)
(* failed handshake leads back to the loop (through the 404 sleep at       *)
(* most), and a Session that ends leaves its connection closed and control *)
(* at the top of the loop.                                                 *)
(***************************************************************************)
C10_ErrorEndsSession ==
  /\ (connOpen /\ ~connOpen') => pc' = "loop_top"
  /\ (pc = "connecting" /\ pc' # "connecting" /\ ~connOpen') =>
        pc' \in {"loop_top", "not_found_sleep"}
  /\ (endReason' # endReason /\ endReason' # "none") => (~connOpen' /\ pc' # "exited")

C10_NoErrorExits ==
  /\ [](pc # "exited")
  /\ [][C10_ErrorEndsSession]_vars

C10_Witness ==
  /\ pc = "loop_top" /\ endReason = "registration_failed" /\ lastRecv = "bad_json"

(***************************************************************************)
(* C11.  With a --server value that is not a usable address the process    *)
(* exits before the Supervisor loop is entered: monitor_system never       *)
(* reaches the loop, and no connection attempt is made, with such a URL.   *)
(***************************************************************************)
C11_Original == (~urlValid) => pc \in {"main", "startup"}

(***************************************************************************)
(* C19.  Each Session sends register_host exactly once: one register_host  *)
(* has been written on the connection whenever the Session is in the       *)
(* registration wait or in the publish loop, and never more than one.      *)
(***************************************************************************)
C19_RegisterOnce ==
  /\ regSent <= 1
  /\ (pc \in {"reg_wait"} \cup StreamingPcs) => regSent = 1
  /\ (pc \in {"welcome", "register"}) => regSent = 0

C19_Witness ==
  /\ pc = "interval_sleep" /\ regSent = 1 /\ send_count = MaxSends
  /\ lastRecv = "registration_confirmed" /\ elapsed > recv_timeout

(***************************************************************************)
(* C20.  A shutdown request arriving at a suspension point stops the       *)
(* agent: from then on the process is stopped, the connection that was     *)
(* open is closed, and nothing more is sent.                               *)
(***************************************************************************)
C20_NothingSentAfter ==
  interrupted => UNCHANGED <<regSent, pingSent, metricsSent, iterLog, lastPub>>

C20_ShutdownStops ==
  /\ [](interrupted => (pc = "stopped" /\ ~connOpen))
  /\ [][C20_NothingSentAfter]_vars

C20_Witness ==
  /\ interrupted /\ pc = "stopped" /\ ~connOpen
  /\ streamed /\ metricsSent /\ endReason = "none"

(***************************************************************************)
(* Identity claims.  A step of Import is one call of get_client_id: the    *)
(* unprimed variables are the configuration and storage it finds, the      *)
(* primed ones what it returns and leaves behind.  Generated identifiers   *)
(* are numbered in the order of generation, so one generated by the call   *)
(* has a number above uuidCount and below that of any other identifier.    *)
(***************************************************************************)
ImportStep == pc = "import" /\ pc' # "import"

Configured == CONFIG = "client_id"

Readable == client_id_file.present /\ idRead = "read"

FreshlyGenerated ==
  /\ Len(CLIENT_ID') = 1
  /\ CLIENT_ID'[1] > uuidCount
  /\ CLIENT_ID'[1] < OldId
  /\ uuidCount' > uuidCount

(***************************************************************************)
(* C12 as stated.  For every configuration and every state of the file,    *)
(* get_client_id returns the configured client_id if there is one,         *)
(* otherwise the non-empty content of the identifier file, otherwise a     *)
(* fresh identifier that it then writes to the identifier file.            *)
(***************************************************************************)
C12_Original ==
  [][ImportStep =>
       IF Configured THEN CLIENT_ID' = ConfigId
       ELSE IF PersistedId(client_id_file) # <<>>
            THEN CLIENT_ID' = PersistedId(client_id_file)
            ELSE FreshlyGenerated /\ client_id_file' = FileOf(CLIENT_ID')]_vars

(***************************************************************************)
(* C12 amended.  get_client_id returns the configured client_id if there   *)
(* is one; otherwise the stripped, non-empty content of an identifier file *)
(* that can be read; otherwise a fresh identifier.  The fresh identifier   *)
(* is written to the file when the file is absent or blank and the write   *)
(* succeeds; when the write fails nothing is persisted, and when reading   *)
(* an existing file raises the file is left as it is.  In the first two    *)
(* cases the file is not touched.                                          *)
(***************************************************************************)
C12_Precedence ==
  [][ImportStep =>
       IF Configured THEN CLIENT_ID' = ConfigId /\ UNCHANGED client_id_file
       ELSE IF Readable /\ PersistedId(client_id_file) # <<>>
            THEN CLIENT_ID' = PersistedId(client_id_file) /\ UNCHANGED client_id_file
            ELSE /\ FreshlyGenerated
                 /\ IF client_id_file.present /\ idRead # "read"
                    THEN UNCHANGED client_id_file
                    ELSE IF idWrite = "written"
                         THEN client_id_file' = FileOf(CLIENT_ID')
                         ELSE PersistedId(client_id_file') = <<>>]_vars

C12_Witness ==
  /\ pc = "main"
  /\ CONFIG = "no_client_id"
  /\ lastPath = "temporary"
  /\ idWrite = "open_raises"
  /\ client_id_file = FileOf(<<WS>>)
  /\ CLIENT_ID = Uuid4(0)

(***************************************************************************)
(* C13.  With no configured client_id and no identifier file on the first  *)
(* run (and a file that can be written), the first run generates an        *)
(* identifier and leaves exactly it in the file; a second run that reads   *)
(* that file returns the same identifier, generates nothing and writes     *)
(* nothing.                                                                *)
(***************************************************************************)
C13_RoundTrip ==
  [][/\ (ImportStep /\ runs = 0 /\ ~Configured /\ ~client_id_file.present
           /\ idWrite = "written")
        => (FreshlyGenerated /\ client_id_file' = FileOf(CLIENT_ID') /\ idWrites' = 1)
     /\ (ImportStep /\ runs = 1 /\ ~Configured /\ firstFile = Absent /\ idWrites = 1
           /\ client_id_file = FileOf(CLIENT_ID) /\ idRead = "read")
        => (CLIENT_ID' = CLIENT_ID /\ UNCHANGED <<client_id_file, uuidCount, idWrites>>)]_vars

C13_Witness ==
  /\ pc = "main"
  /\ runs = 2
  /\ CONFIG = "no_file"
  /\ firstFile = Absent
  /\ lastPath = "file"
  /\ CLIENT_ID = Uuid4(0)
  /\ client_id_file = FileOf(Uuid4(0))
  /\ uuidCount = 1
  /\ idWrites = 1

(***************************************************************************)
(* C14 as stated.  Once the identifier file has held an identifier, every  *)
(* later call without a configured client_id returns that identifier and   *)
(* leaves it in the file, whatever reading the file does.                  *)
(***************************************************************************)
C14_Original ==
  [][(ImportStep /\ ~Configured /\ persisted # <<>>)
       => (CLIENT_ID' = persisted /\ PersistedId(client_id_file') = persisted)]_vars

C16_Original ==
  /\ [](stable => idWrites <= 1)
  /\ [][(ImportStep /\ runs >= 1 /\ stable) => CLIENT_ID' = CLIENT_ID]_vars

(***************************************************************************)
(* C17 as stated.  When one acquisition raises inside collect_metrics, the *)
(* snapshot returned holds the measurements of every other acquisition and *)
(* lacks only those of the failing one, whichever acquisition fails.       *)
(***************************************************************************)
C17_Original ==
  ("metrics" \in collected /\ failing # "none")
    => metrics = AllMetrics \ MetricsOf(failing)

(***************************************************************************)
(* C18.  With a storage section whose device entries name two distinct     *)
(* mount points in the mount|type form, both readable on the host, and no  *)
(* network section, collect_storage_devices returns one entry for each of  *)
(* the two, in the order listed, and nothing else, whatever other volumes  *)
(* the host has; collect_network_interfaces returns what auto-discovery    *)
(* finds: the interfaces that are not loopback and have an IPv4 address.   *)
(***************************************************************************)
DeviceEntries == SelectSeq(storageSection, LAMBDA e : e.key \in {"device_1", "device_2"})

TwoMountPoints ==
  /\ Len(DeviceEntries) = 2
  /\ \A i \in 1..2 : Len(DeviceEntries[i].value) = 2 /\ DeviceEntries[i].value[1] \in hostVolumes
  /\ DeviceEntries[1].value[1] # DeviceEntries[2].value[1]

C18_ConfiguredStorageOnly ==
  (task = "info" /\ TwoMountPoints /\ ~networkSection.present)
    => /\ ("storage" \in collected) =>
            storage_devices =
              [i \in 1..2 |-> [name |-> DeviceEntries[i].value[1],
                               device_type |-> DeviceEntries[i].value[2]]]
       /\ ("network" \in collected) =>
            /\ {network_interfaces[i] : i \in 1..Len(network_interfaces)} =
                 {n \in {"eth0"} : hostInterfaces[n] = "ipv4"}
            /\ Len(network_interfaces) <= 1

C18_Witness ==
  /\ collected = {"storage", "network"}
  /\ TwoMountPoints
  /\ hostVolumes = {"/", "/data", "/backup"}
  /\ ~networkSection.present
  /\ Len(storage_devices) = 2
  /\ hostInterfaces = [n \in IfNames |-> "ipv4"]
  /\ network_interfaces = <<"eth0">>

(***************************************************************************)
(* C21 as stated.  After a Session that completed the handshake and then   *)
(* failed registration, the Supervisor sleeps a non-zero backoff before    *)
(* the next connection attempt.                                            *)
(***************************************************************************)
C21_Original ==
  (pc = "connecting" /\ endReason \in {"registration_failed", "registration_raised"})
    => current_delay > 0

(***************************************************************************)
(* C22.  Whatever the greeting wait ends with (a frame of any kind, a      *)
(* timeout, a frame that is not JSON, a closed connection), the Session    *)
(* goes on to register_host on the same, still open connection.            *)
(***************************************************************************)
C22_GreetingNonFatal ==
  /\ [][pc = "welcome" => (pc' = "register" /\ connOpen' /\ UNCHANGED regSent)]_vars
  /\ [](pc = "register" => (connOpen /\ regSent = 0))

C22_Witness == pc = "register" /\ link = "down" /\ connOpen /\ regSent = 0

(***************************************************************************)
(* C23.  In every pass of the publish loop the ping is sent first, and     *)
(* send_metrics is reached only when that ping was written; a ping that    *)
(* fails ends the Session at once, with the connection closed, no          *)
(* metrics_update in that pass and failure_count left as it was, whatever  *)
(* its value.                                                              *)
(***************************************************************************)
C23_PingFirst ==
  /\ [](iterLog \in {<<>>, <<"ping">>, <<"ping", "metrics_update">>})
  /\ [](pc = "metrics" => iterLog = <<"ping">>)
  /\ [][(pc = "ping" /\ iterLog' # <<"ping">>)
          => (pc' = "loop_top" /\ ~connOpen' /\ UNCHANGED <<metricsSent, failure_count>>)]_vars

C23_Witness ==
  /\ pc = "loop_top"
  /\ endReason = "ping_failed"
  /\ failure_count = 2
  /\ iterLog = <<>>
  /\ ~connOpen

(***************************************************************************)
(* C24 as stated.  When the connection is found closed while a             *)
(* metrics_update is being sent, the Session ends then: it does not go on  *)
(* to the interval sleep and the connection is closed.                     *)
(***************************************************************************)
C24_Original ==
  [][(pc = "metrics" /\ link = "up" /\ link' = "down")
       => (pc' # "interval_sleep" /\ ~connOpen')]_vars

(***************************************************************************)
(* C25 as stated.  A ping that fails adds one to failure_count, and the    *)
(* Session ends only when the count has reached 3.                         *)
(***************************************************************************)
C25_Original ==
  [][(pc = "ping" /\ iterLog' # <<"ping">>)
       => /\ failure_count' = failure_count + 1
          /\ connOpen' <=> (failure_count' < failure_limit)]_vars

(***************************************************************************)
(* C26 as stated.  A ping that was sent has a type field, a timestamp      *)
(* field and a hostname or client_id field.                                *)
(***************************************************************************)
C26_Original ==
  pingSent => /\ {"type", "timestamp"} \subseteq PingFields
              /\ PingFields \cap {"hostname", "client_id"} # {}

(***************************************************************************)
(* C27.  A pass of the publish loop sends at most one metrics_update, and  *)
(* every publish attempt carries the snapshot collected in that attempt:   *)
(* never one whose send failed earlier, in this Session or a previous one. *)
(***************************************************************************)
C27_NoRetry ==
  /\ [](carried \in {"none", "fresh"})
  /\ [](Len(SelectSeq(iterLog, LAMBDA m : m = "metrics_update")) <= 1)
  /\ [][pc = "metrics" => carried' = "fresh"]_vars

C27_Witness ==
  /\ pc = "interval_sleep"
  /\ failRun = 2
  /\ failure_count = 2
  /\ unsent
  /\ carried = "fresh"
  /\ iterLog = <<"ping">>

(***************************************************************************)
(* C28 as stated.  failure_count goes back to 0 only in a pass in which a  *)
(* metrics_update was written to the transport.                            *)
(***************************************************************************)
C28_Original ==
  [][(pc = "metrics" /\ failure_count > 0 /\ failure_count' = 0) => lastPub' = "sent"]_vars

(***************************************************************************)
(* C29 as stated.  Between the end of a failed connection attempt and the  *)
(* start of the next, the Supervisor sleeps at most max_backoff seconds.   *)
(***************************************************************************)
C29_Original ==
  (pc = "connecting" /\ endReason = "connect_failed")
    => current_delay + extra_sleep <= max_backoff

(***************************************************************************)
(* C30.  While the Supervisor is between Sessions (at the top of its loop, *)
(* in a backoff or 404 sleep, or connecting) no connection is open,        *)
(* whichever way the previous Session ended.                               *)
(***************************************************************************)
C30_OneConnection ==
  (pc \in {"main", "startup", "loop_top", "backoff", "not_found_sleep", "connecting"})
    => ~connOpen

C30_Witness ==
  /\ pc = "connecting"
  /\ endReason = "publish_failures"
  /\ prevStreamed
  /\ ~connOpen

====
